---- MODULE Spec2Model ----
(***************************************************************************)
(* A model of unladen's publisher (src/src/unladen/core.py): main, the     *)
(* ref parser (parse_ref, slugify) and the tree publisher                  *)
(* (copy_source_to_target) acting on a file system.                        *)
(*                                                                         *)
(* A Python str is a string (a sequence of characters); a resolved Path is *)
(* a sequence of names; the file system is a function from the paths that  *)
(* exist to "dir" or to the content of a regular file.                     *)
(***************************************************************************)
EXTENDS Integers, Sequences, FiniteSets, TLC

VARIABLES
    pc,          \* position of the current invocation of main
    repo,        \* --repo
    target,      \* --target (a resolved path)
    ref,         \* --ref, then the detected ref
    sha,         \* --sha, then the detected SHA
    source,      \* SOURCE (a resolved path)
    parsed_ref,  \* the RefInfo main computed
    temp_dir,    \* the TemporaryDirectory of the invocation, <<>> when none
    fs,          \* the file system
    log,         \* the calls of this invocation, in order, each with its outcome
    error,       \* the failure the invocation raised
    runs,        \* invocations started so far
    published,   \* the raw refs published into pubTarget, run after successful run
    pubTarget    \* the target root those publishes went into

vars == <<pc, repo, target, ref, sha, source, parsed_ref, temp_dir, fs,
          log, error, runs, published, pubTarget>>

----------------------------------------------------------------------------
\* Bounds

MaxRuns == 2    \* invocations of main in one behaviour
MaxDepth == 6   \* longest path the file system accepts (ENAMETOOLONG beyond)
MaxTail == 2    \* characters appended to a prefix to build a raw ref

----------------------------------------------------------------------------
\* Python values

None == "<None>"
NoPath == <<"<None>">>
NoError == "none"

Truthy(x) == x # None /\ x # ""

\* s[n:]
Slice(s, n) == SubSeq(s, n + 1, Len(s))

\* s.startswith(p)
startswith(s, p) == Len(s) >= Len(p) /\ SubSeq(s, 1, Len(p)) = p

RECURSIVE replace(_, _, _)
\* value.replace(old, new) for a one-character old
replace(value, old, new) ==
    IF value = "" THEN ""
    ELSE (IF Head(value) = old THEN new ELSE Head(value))
             \o replace(Tail(value), old, new)

slugify(value) == replace(value, "/", "-")

TagPrefix == "refs/tags/"
HeadPrefix == "refs/heads/"
TagSlice == 10
HeadSlice == 11

\* a faulty variant: the branch prefix cut with the tag prefix's length
parse_ref_same_slice(r) ==
    IF startswith(r, TagPrefix)
    THEN [name |-> slugify(Slice(r, TagSlice)), kind |-> "TAG"]
    ELSE IF startswith(r, HeadPrefix)
    THEN [name |-> slugify(Slice(r, TagSlice)), kind |-> "BRANCH"]
    ELSE [name |-> slugify(r), kind |-> "UNKNOWN"]

parse_ref(r) ==
    IF startswith(r, TagPrefix)
    THEN [name |-> slugify(Slice(r, TagSlice)), kind |-> "TAG"]
    ELSE IF startswith(r, HeadPrefix)
    THEN [name |-> slugify(Slice(r, HeadSlice)), kind |-> "BRANCH"]
    ELSE [name |-> slugify(r), kind |-> "UNKNOWN"]

NoRef == [name |-> None, kind |-> "UNKNOWN"]

----------------------------------------------------------------------------
\* Paths and the file system

N_s == "s"
N_d == "d"
N_f == "f"
N_g == "g"
N_t == "t"
N_n == "n"
N_w == "w"
N_tmp == "tmp"
N_old == "old"
N_main == "main"
Dot == "."
DotDot == ".."

\* every name an entry can have, in the order a directory lists them
NameOrder == <<N_d, N_f, N_g, N_main, N_n, N_old, N_s, N_t, N_tmp, N_w>>

Rank(n) == CHOOSE i \in 1..Len(NameOrder) : NameOrder[i] = n

Root == <<>>
Front(p) == SubSeq(p, 1, Len(p) - 1)
Last(p) == p[Len(p)]
Parent(p) == IF p = Root THEN Root ELSE Front(p)
IsPrefix(p, q) == Len(p) <= Len(q) /\ SubSeq(q, 1, Len(p)) = p
Prefixes(p) == {SubSeq(p, 1, i) : i \in 0..Len(p)}

IsDir(f, p) == p \in DOMAIN f /\ f[p] = "dir"
IsFile(f, p) == p \in DOMAIN f /\ f[p] # "dir"
Under(f, p) == {q \in DOMAIN f : IsPrefix(p, q)}
Children(f, p) == {q[Len(p) + 1] : q \in {x \in DOMAIN f : Len(x) = Len(p) + 1 /\ IsPrefix(p, x)}}

\* the tree below p, by relative path (p itself is the empty relative path)
Subtree(f, p) ==
    [r \in {SubSeq(q, Len(p) + 1, Len(q)) : q \in Under(f, p)} |-> f[p \o r]]

\* the tree t placed at p (p itself included), whatever was below p removed
Graft(f, p, t) ==
    [q \in (DOMAIN f \ Under(f, p)) \cup {p \o r : r \in DOMAIN t} |->
        IF IsPrefix(p, q) THEN t[SubSeq(q, Len(p) + 1, Len(q))] ELSE f[q]]

Remove(f, p) == [q \in DOMAIN f \ Under(f, p) |-> f[q]]

\* pathlib's target / name: a "." (or empty) segment is dropped, ".." is kept
Join(t, name) == IF name = Dot \/ name = "" THEN t ELSE Append(t, name)

\* the file the operating system reaches through a path whose last segment
\* may be "..": the segment before it must be a directory
Real(f, p) ==
    IF p # Root /\ Last(p) = DotDot
    THEN IF IsDir(f, Front(p)) THEN Parent(Front(p)) ELSE NoPath
    ELSE p

Ok(f) == [fs |-> f, ok |-> TRUE]
Failed(f) == [fs |-> f, ok |-> FALSE]

\* Path.mkdir(parents=True, exist_ok=True)
mkdir_parents(f, p) ==
    IF Len(p) > MaxDepth \/ \E q \in Prefixes(p) : IsFile(f, q)
    THEN Failed(f)
    ELSE Ok([q \in DOMAIN f \cup Prefixes(p) |-> IF q \in DOMAIN f THEN f[q] ELSE "dir"])

\* shutil.rmtree(p): the entries below p go first, then os.rmdir(p), which
\* cannot reach p any more when p ends in ".." (the segment before it is gone)
rmtree(f, p) ==
    IF p # Root /\ Last(p) = DotDot
    THEN LET real == Real(f, p)
         IN Failed([q \in {x \in DOMAIN f : ~(IsPrefix(real, x) /\ x # real)} |-> f[q]])
    ELSE IF p = Root THEN Failed([q \in {Root} |-> "dir"])
    ELSE Ok(Remove(f, p))

\* Path.unlink()
unlink(f, p) == IF IsFile(f, p) THEN Ok(Remove(f, p)) ELSE Failed(f)

\* os.scandir promises no order: a directory lists by rising or by falling rank
ScanOrders == {"asc", "desc"}

Before(x, y, ord) == IF ord = "asc" THEN Rank(x) <= Rank(y) ELSE Rank(x) >= Rank(y)

RECURSIVE SortNames(_, _)
\* os.scandir: the entries of a directory, in the file system's order
SortNames(S, ord) ==
    IF S = {} THEN <<>>
    ELSE LET m == CHOOSE x \in S : \A y \in S : Before(x, y, ord)
         IN <<m>> \o SortNames(S \ {m}, ord)

\* shutil.copy2 of a regular file
copy2(f, s, d) ==
    IF ~IsFile(f, s) \/ Len(d) > MaxDepth \/ IsDir(f, d) \/ ~IsDir(f, Parent(d))
    THEN Failed(f)
    ELSE Ok([q \in DOMAIN f \cup {d} |-> IF q = d THEN f[s] ELSE f[q]])

RECURSIVE copytree(_, _, _, _)
RECURSIVE CopyEntries(_, _, _, _, _)

\* shutil._copytree's loop: every entry is tried, the errors are collected
CopyEntries(f, entries, src, dst, ord) ==
    IF entries = <<>> THEN Ok(f)
    ELSE LET e == Head(entries)
             r == IF IsDir(f, Append(src, e))
                  THEN copytree(f, Append(src, e), Append(dst, e), ord)
                  ELSE copy2(f, Append(src, e), Append(dst, e))
             rest == CopyEntries(r.fs, Tail(entries), src, dst, ord)
         IN [fs |-> rest.fs, ok |-> r.ok /\ rest.ok]

\* shutil.copytree(src, dst): the entries of src are listed, then dst is made
\* (it must not exist), then the entries are copied
copytree(f, src, dst, ord) ==
    IF ~IsDir(f, src) THEN Failed(f)
    ELSE LET entries == SortNames(Children(f, src), ord)
             made == mkdir_parents(f, dst)
         IN IF Real(f, dst) \in DOMAIN f \/ ~made.ok THEN Failed(f)
            ELSE CopyEntries(made.fs, entries, src, dst, ord)

\* a faulty variant: cp -r semantics, an existing destination directory
\* receives the copy as a subdirectory named after the source
copy_source_to_target_into(f, src, tgt, name, ord) ==
    LET m == mkdir_parents(f, tgt)
        fullpath == Join(tgt, name)
    IN IF ~m.ok THEN Failed(f)
       ELSE IF IsDir(m.fs, Real(m.fs, fullpath)) /\ src # Root
       THEN LET inner == Append(Real(m.fs, fullpath), Last(src))
                gone == IF IsDir(m.fs, inner) THEN rmtree(m.fs, inner)
                        ELSE IF IsFile(m.fs, inner) THEN unlink(m.fs, inner)
                        ELSE Ok(m.fs)
            IN copytree(gone.fs, src, inner, ord)
       ELSE copytree(m.fs, src, fullpath, ord)

copy_source_to_target(f, src, tgt, name, ord) ==
    LET m == mkdir_parents(f, tgt)
        fullpath == Join(tgt, name)
        gone == IF Real(m.fs, fullpath) \in DOMAIN m.fs
                THEN IF IsDir(m.fs, Real(m.fs, fullpath))
                     THEN rmtree(m.fs, fullpath)
                     ELSE unlink(m.fs, fullpath)
                ELSE Ok(m.fs)
    IN IF ~m.ok THEN Failed(f)
       ELSE IF ~gone.ok THEN gone
       ELSE copytree(gone.fs, src, fullpath, ord)


----------------------------------------------------------------------------
\* The inputs of an invocation

Url == "url"
Repos == {None, Url}
Targets == {NoPath, <<N_t>>, <<N_s>>, <<N_s, N_d>>, <<N_n>>}
SourceCands == {<<N_s>>, <<N_s, N_d>>}
Refs == {None, HeadPrefix \o N_main, TagPrefix \o N_main, TagPrefix, Dot, DotDot, N_d}
Abc == "abc"
\* --sha is left out; git.get_sha reports the SHA, or none when there is no commit yet
Shas == {None}
DetectedShas == {None, Abc}

\* what git.get_ref can report for the source checkout
DetectedRefs == {HeadPrefix \o N_main, ""}

\* the raw refs parse_ref is tried on: a prefix, then up to MaxTail characters
Alphabet == {"a", "/", ".", "-"}
RECURSIVE Strings(_)
Strings(n) == IF n = 0 THEN {""}
              ELSE {""} \cup {c \o t : c \in Alphabet, t \in Strings(n - 1)}
Tails == Strings(MaxTail)
RefPrefixes == {"", TagPrefix, HeadPrefix, "refs/", "refs/tags", TagPrefix \o HeadPrefix}
WideRefs == {p \o t : p \in RefPrefixes, t \in Tails}

TmpRoot == <<N_tmp>>
TempDir == <<N_tmp, N_w>>

InitFs ==
    (Root :> "dir")
    @@ (<<N_s>> :> "dir") @@ (<<N_s, N_f>> :> "c1")
    @@ (<<N_s, N_d>> :> "dir") @@ (<<N_s, N_d, N_g>> :> "c2")
    @@ (<<N_t>> :> "dir") @@ (<<N_t, N_main>> :> "dir") @@ (<<N_t, N_main, N_old>> :> "c3")
    @@ (<<N_t, N_d>> :> "c4")
    @@ (TmpRoot :> "dir")

RootOnly == (Root :> "dir")

\* what the target branch can hold on the remote
BranchTrees == {RootOnly, Subtree(InitFs, <<N_t>>)}

----------------------------------------------------------------------------
\* main

Ev(op, ok) == [op |-> op, ok |-> ok]
\* the copy, with the order its directories listed in
CopyEv(ok, ord) == [op |-> "copy_source_to_target", ok |-> ok, scan |-> ord]

RefDone == pc = "parse" \/ (pc = "ref" /\ Truthy(ref))
ShaDone == pc = "branch" \/ (pc = "sha" /\ Truthy(sha))

Init ==
    /\ pc = "idle"
    /\ repo = None /\ target = NoPath /\ ref = None /\ sha = None /\ source = NoPath
    /\ parsed_ref = NoRef
    /\ temp_dir = NoPath
    /\ fs = InitFs
    /\ log = <<>>
    /\ error = NoError
    /\ runs = 0
    /\ published = {}
    /\ pubTarget = NoPath

\* the command line reaches main: click has checked that SOURCE is an existing
\* directory and that --target is no regular file
Start ==
    /\ pc = "idle"
    /\ runs < MaxRuns
    /\ \E r \in Repos, t \in Targets, rf \in Refs, sh \in Shas,
          src \in {NoPath} \cup {p \in SourceCands : IsDir(fs, p)} :
        /\ ~IsFile(fs, t)
        /\ repo' = r /\ target' = t /\ ref' = rf /\ sha' = sh /\ source' = src
        /\ IF t = pubTarget /\ ~Truthy(r)
           THEN UNCHANGED <<published, pubTarget>>
           ELSE published' = {} /\ pubTarget' = NoPath
    /\ pc' = "validate"
    /\ parsed_ref' = NoRef
    /\ temp_dir' = NoPath
    /\ log' = <<>>
    /\ error' = NoError
    /\ runs' = runs + 1
    /\ UNCHANGED fs

Raise(e) ==
    /\ pc' = "failed"
    /\ error' = e
    /\ published' = {}
    /\ pubTarget' = NoPath

\* a faulty variant: the check that both targets are given is missing
ValidateEitherOnly ==
    /\ pc = "validate"
    /\ IF ~(Truthy(repo) \/ target # NoPath)
       THEN Raise("BadOptionUsage: either 'repo' or 'target' must be specified")
       ELSE IF source = NoPath
       THEN Raise("BadOptionUsage: missing required parameter 'source'")
       ELSE pc' = "ref" /\ UNCHANGED <<error, published, pubTarget>>
    /\ UNCHANGED <<repo, target, ref, sha, source, parsed_ref, temp_dir, fs,
                   log, runs>>

Validate ==
    /\ pc = "validate"
    /\ IF Truthy(repo) /\ target # NoPath
       THEN Raise("BadOptionUsage: only one of 'repo' and 'target' can be specified")
       ELSE IF ~(Truthy(repo) \/ target # NoPath)
       THEN Raise("BadOptionUsage: either 'repo' or 'target' must be specified")
       ELSE IF source = NoPath
       THEN Raise("BadOptionUsage: missing required parameter 'source'")
       ELSE pc' = "ref" /\ UNCHANGED <<error, published, pubTarget>>
    /\ UNCHANGED <<repo, target, ref, sha, source, parsed_ref, temp_dir, fs,
                   log, runs>>

\* git.get_ref: reports the ref of the source checkout, or fails
GetRef ==
    /\ pc = "ref"
    /\ ~Truthy(ref)
    /\ \/ /\ \E d \in DetectedRefs : ref' = d
          /\ log' = Append(log, Ev("get_ref", TRUE))
          /\ pc' = "parse"
          /\ UNCHANGED <<error, published, pubTarget>>
       \/ /\ log' = Append(log, Ev("get_ref", FALSE))
          /\ Raise("get_ref failed")
          /\ UNCHANGED ref
    /\ UNCHANGED <<repo, target, sha, source, parsed_ref, temp_dir, fs,
                   runs>>

\* a faulty variant: the check of the parsed name is missing
ParseRefUnchecked ==
    /\ RefDone
    /\ parsed_ref' = parse_ref(ref)
    /\ log' = Append(log, Ev("parse_ref", TRUE))
    /\ pc' = "sha"
    /\ UNCHANGED <<error, published, pubTarget>>
    /\ UNCHANGED <<repo, target, ref, sha, source, temp_dir, fs, runs>>

ParseRef ==
    /\ RefDone
    /\ parsed_ref' = parse_ref(ref)
    /\ log' = Append(log, Ev("parse_ref", parse_ref(ref).name # ""))
    /\ IF parse_ref(ref).name = ""
       THEN Raise("BadOptionUsage: the provided or inferred git ref is invalid")
       ELSE pc' = "sha" /\ UNCHANGED <<error, published, pubTarget>>
    /\ UNCHANGED <<repo, target, ref, sha, source, temp_dir, fs, runs>>

\* git.get_sha: reports the SHA of the source checkout, none when there is no
\* commit yet, or fails
GetSha ==
    /\ pc = "sha"
    /\ ~Truthy(sha)
    /\ \/ /\ \E h \in DetectedShas : sha' = h
          /\ log' = Append(log, Ev("get_sha", TRUE))
          /\ pc' = "branch"
          /\ UNCHANGED <<error, published, pubTarget>>
       \/ /\ log' = Append(log, Ev("get_sha", FALSE))
          /\ Raise("get_sha failed")
          /\ UNCHANGED sha
    /\ UNCHANGED <<repo, target, ref, source, parsed_ref, temp_dir, fs,
                   runs>>

\* with tempfile.TemporaryDirectory() as temp_dir
AllocTemp ==
    /\ ShaDone
    /\ Truthy(repo)
    /\ IF IsDir(fs, TmpRoot) /\ TempDir \notin DOMAIN fs
       THEN /\ fs' = mkdir_parents(fs, TempDir).fs
            /\ temp_dir' = TempDir
            /\ log' = Append(log, Ev("mkdtemp", TRUE))
            /\ pc' = "checkout"
            /\ UNCHANGED <<error, published, pubTarget>>
       ELSE /\ log' = Append(log, Ev("mkdtemp", FALSE))
            /\ Raise("mkdtemp failed")
            /\ UNCHANGED <<fs, temp_dir>>
    /\ UNCHANGED <<repo, target, ref, sha, source, parsed_ref, runs>>

\* an exception inside the with block: the block is left, the cleanup is next
Unwind(e) ==
    /\ pc' = "unwind"
    /\ error' = e
    /\ published' = {}
    /\ pubTarget' = NoPath

\* git.checkout_or_init_repo: the working tree holds the target branch as the
\* remote has it (an empty tree when it has no such branch), or the call fails
Checkout ==
    /\ pc = "checkout"
    /\ \/ /\ \E t \in BranchTrees : fs' = Graft(fs, temp_dir, t)
          /\ log' = Append(log, Ev("checkout_or_init_repo", TRUE))
          /\ pc' = "copy"
          /\ UNCHANGED <<error, published, pubTarget>>
       \/ /\ log' = Append(log, Ev("checkout_or_init_repo", FALSE))
          /\ Unwind("checkout_or_init_repo failed")
          /\ UNCHANGED fs
    /\ UNCHANGED <<repo, target, ref, sha, source, parsed_ref, temp_dir,
                   runs>>

\* a faulty variant: the outcome of the copy is ignored, the push follows
CopyRemoteUnchecked ==
    /\ pc = "copy"
    /\ \E ord \in ScanOrders :
       LET r == copy_source_to_target(fs, source, temp_dir, parsed_ref.name, ord)
       IN /\ fs' = r.fs
          /\ log' = Append(log, CopyEv(r.ok, ord))
          /\ pc' = "push"
          /\ UNCHANGED <<error, published, pubTarget>>
    /\ UNCHANGED <<repo, target, ref, sha, source, parsed_ref, temp_dir,
                   runs>>

CopyRemote ==
    /\ pc = "copy"
    /\ \E ord \in ScanOrders :
       LET r == copy_source_to_target(fs, source, temp_dir, parsed_ref.name, ord)
       IN /\ fs' = r.fs
          /\ log' = Append(log, CopyEv(r.ok, ord))
          /\ IF r.ok
             THEN pc' = "push" /\ UNCHANGED <<error, published, pubTarget>>
             ELSE Unwind("copy_source_to_target failed")
    /\ UNCHANGED <<repo, target, ref, sha, source, parsed_ref, temp_dir,
                   runs>>

\* git.push_to_repo: the working tree is committed and pushed to the remote
\* (which keeps it; nothing local changes), or the call fails
Push ==
    /\ pc = "push"
    /\ \/ /\ IsDir(fs, temp_dir)
          /\ log' = Append(log, Ev("push_to_repo", TRUE))
          /\ pc' = "exit"
          /\ UNCHANGED <<error, published, pubTarget>>
       \/ /\ log' = Append(log, Ev("push_to_repo", FALSE))
          /\ Unwind("push_to_repo failed")
    /\ UNCHANGED <<repo, target, ref, sha, source, parsed_ref, temp_dir, fs,
                   runs>>

\* a faulty variant: the working tree is removed at the end of the block
\* only, so an exception inside the block leaves it behind
CleanupOnSuccessOnly ==
    /\ pc \in {"exit", "unwind"}
    /\ fs' = IF pc = "exit" THEN Remove(fs, temp_dir) ELSE fs
    /\ log' = Append(log, Ev("cleanup", TRUE))
    /\ pc' = IF pc = "exit" THEN "done" ELSE "failed"
    /\ UNCHANGED <<repo, target, ref, sha, source, parsed_ref, temp_dir,
                   error, runs, published, pubTarget>>

\* TemporaryDirectory.__exit__: the working tree is removed (a tree that is
\* gone already is no error), then the exception, if any, goes on
Cleanup ==
    /\ pc \in {"exit", "unwind"}
    /\ fs' = Remove(fs, temp_dir)
    /\ log' = Append(log, Ev("cleanup", TRUE))
    /\ pc' = IF pc = "exit" THEN "done" ELSE "failed"
    /\ UNCHANGED <<repo, target, ref, sha, source, parsed_ref, temp_dir,
                   error, runs, published, pubTarget>>

CopyLocal ==
    /\ ShaDone
    /\ ~Truthy(repo)
    /\ \E ord \in ScanOrders :
       LET r == copy_source_to_target(fs, source, target, parsed_ref.name, ord)
       IN /\ fs' = r.fs
          /\ log' = Append(log, CopyEv(r.ok, ord))
          /\ IF r.ok
             THEN /\ pc' = "done"
                  /\ published' = published \cup {ref}
                  /\ pubTarget' = target
                  /\ UNCHANGED error
             ELSE Raise("copy_source_to_target failed")
    /\ UNCHANGED <<repo, target, ref, sha, source, parsed_ref, temp_dir,
                   runs>>

\* main has returned or raised: the process exits
Return ==
    /\ pc \in {"done", "failed"}
    /\ pc' = "idle"
    /\ repo' = None /\ target' = NoPath /\ ref' = None /\ sha' = None /\ source' = NoPath
    /\ parsed_ref' = NoRef
    /\ temp_dir' = NoPath
    /\ log' = <<>>
    /\ error' = NoError
    /\ UNCHANGED <<fs, runs, published, pubTarget>>

Next ==
    \/ Start
    \/ Validate
    \/ GetRef
    \/ ParseRef
    \/ GetSha
    \/ AllocTemp
    \/ Checkout
    \/ CopyRemote
    \/ Push
    \/ Cleanup
    \/ CopyLocal
    \/ Return

Spec == Init /\ [][Next]_vars

\* parse_ref alone: main's parsing step on every raw ref of WideRefs
InitRef ==
    /\ pc = "parse"
    /\ repo = None /\ target = <<N_t>> /\ ref \in WideRefs /\ sha = None
    /\ source = <<N_s>>
    /\ parsed_ref = NoRef
    /\ temp_dir = NoPath
    /\ fs = InitFs
    /\ log = <<>>
    /\ error = NoError
    /\ runs = 1
    /\ published = {}
    /\ pubTarget = NoPath

NextRef == ParseRef

SpecRef == InitRef /\ [][NextRef]_vars

----------------------------------------------------------------------------
\* Claims

RepoSet == Truthy(repo)
TargetSet == target # NoPath
Ops(l) == {l[i].op : i \in DOMAIN l}
Did(op) == \E i \in DOMAIN log : log[i].op = op /\ log[i].ok
HasSlash(str) == \E i \in 1..Len(str) : SubSeq(str, i, i) = "/"

OnlyOneErr == "BadOptionUsage: only one of 'repo' and 'target' can be specified"
EitherErr == "BadOptionUsage: either 'repo' or 'target' must be specified"
InvalidRefErr == "BadOptionUsage: the provided or inferred git ref is invalid"

\* the state right after copy_source_to_target returned or raised
PostCopy == log # <<>> /\ log[Len(log)].op = "copy_source_to_target"
PostCopyOk == PostCopy /\ log[Len(log)].ok
\* the directory main handed to copy_source_to_target, and the destination
CopyTarget == IF RepoSet THEN temp_dir ELSE target
Destination == Real(fs, Join(CopyTarget, parsed_ref.name))

\* C1: an invocation with both --repo and --target, or with neither, fails
\* with the configuration error, and no git call and no file system write has
\* taken place when it does.
C1_ConfigErrorFirst ==
    (pc \notin {"idle", "validate"} /\ (RepoSet <=> TargetSet)) =>
        /\ pc = "failed"
        /\ error = (IF RepoSet THEN OnlyOneErr ELSE EitherErr)
        /\ log = <<>>
        /\ TempDir \notin DOMAIN fs

C1_Witness == pc = "failed" /\ RepoSet /\ TargetSet /\ error = OnlyOneErr

\* C2: running copy_source_to_target again with the same arguments leaves the
\* file system as the first run left it: after a successful run whatever
\* order the directories list in, after a failed run when they list as before.
C2_PublishTwiceSameAsOnce ==
    PostCopy =>
        \A ord \in ScanOrders :
            (PostCopyOk \/ ord = log[Len(log)].scan) =>
                copy_source_to_target(fs, source, CopyTarget, parsed_ref.name, ord).fs = fs

\* a destination that held other files before is republished
C2_Witness ==
    /\ PostCopyOk
    /\ target = <<N_t>> /\ parsed_ref.name = N_main /\ source = <<N_s>>
    /\ <<N_t, N_main, N_f>> \in DOMAIN fs
    /\ <<N_t, N_main, N_old>> \notin DOMAIN fs

\* C3: after a successful copy_source_to_target the tree at target/ref.name
\* has exactly the files of source, same relative paths, same contents.
C3_DestinationIsSource ==
    PostCopyOk => Subtree(fs, Destination) = Subtree(fs, source)

\* C4: a successful publish of a ref into a target root leaves the directory
\* of every other ref published into that root before as it was.
C4_OtherRefsKept ==
    [][(pc' = "done" /\ PostCopyOk' /\ ~RepoSet /\ pc # "done") =>
          \A r \in published \ {ref} :
             Subtree(fs', Real(fs', Join(target, parse_ref(r).name)))
                = Subtree(fs, Real(fs, Join(target, parse_ref(r).name)))]_vars

\* C5: the name main hands to copy_source_to_target is a single path
\* component: not empty, no separator, neither "." nor "..", so the
\* destination is a direct child of the target directory.
C5_NameIsOneComponent ==
    PostCopy =>
        /\ parsed_ref.name # ""
        /\ ~HasSlash(parsed_ref.name)
        /\ parsed_ref.name \notin {Dot, DotDot}
        /\ Join(CopyTarget, parsed_ref.name) = Append(CopyTarget, parsed_ref.name)

\* what remains of a raw ref behind its prefix, and its kind
RemainderOf(r) ==
    IF Len(r) >= Len("refs/tags/") /\ SubSeq(r, 1, Len("refs/tags/")) = "refs/tags/"
    THEN <<SubSeq(r, Len("refs/tags/") + 1, Len(r)), "TAG">>
    ELSE IF Len(r) >= Len("refs/heads/") /\ SubSeq(r, 1, Len("refs/heads/")) = "refs/heads/"
    THEN <<SubSeq(r, Len("refs/heads/") + 1, Len(r)), "BRANCH">>
    ELSE <<r, "UNKNOWN">>

\* C6: parse_ref gives TAG and the rest behind "refs/tags/", else BRANCH and
\* the rest behind "refs/heads/", else UNKNOWN and the whole string; in the
\* name every "/" is a "-" and every other character is as it was.
C6_ParseRefByPrefix ==
    parsed_ref # NoRef =>
        LET rest == RemainderOf(ref)[1]
        IN /\ parsed_ref.kind = RemainderOf(ref)[2]
           /\ Len(parsed_ref.name) = Len(rest)
           /\ \A i \in 1..Len(rest) :
                 SubSeq(parsed_ref.name, i, i) =
                    (IF SubSeq(rest, i, i) = "/" THEN "-" ELSE SubSeq(rest, i, i))

C6_Witness ==
    /\ parsed_ref.kind = "BRANCH"
    /\ HasSlash(RemainderOf(ref)[1])
    /\ Len(parsed_ref.name) = MaxTail

\* C7: the ref is refused as invalid exactly when its normalized name is
\* empty, as for "" and "refs/tags/"; nothing is prepared or written then.
C7_InvalidRefIffEmptyName ==
    "parse_ref" \in Ops(log) =>
        /\ (error = InvalidRefErr) <=> (parsed_ref.name = "")
        /\ ref \in {"", "refs/tags/"} => error = InvalidRefErr
        /\ error = InvalidRefErr =>
              /\ pc = "failed"
              /\ log[Len(log)].op = "parse_ref"
              /\ TempDir \notin DOMAIN fs
        /\ (error # InvalidRefErr /\ log[Len(log)].op = "parse_ref") => pc = "sha"

C7_Witness == pc = "failed" /\ error = InvalidRefErr /\ ref = "refs/tags/"

\* C8: the working tree main allocated for a remote target is gone when the
\* invocation has ended, however it ended; with a local target none is allocated.
C8_TempDirReleased ==
    /\ pc \in {"done", "failed", "idle"} => Under(fs, TempDir) = {}
    /\ (pc \in {"done", "failed"} /\ Did("mkdtemp")) => "cleanup" \in Ops(log)
    /\ (pc # "idle" /\ ~RepoSet) => (temp_dir = NoPath /\ "mkdtemp" \notin Ops(log))

C8_Witness ==
    /\ pc = "failed" /\ temp_dir = TempDir
    /\ error = "checkout_or_init_repo failed"

StepRank(op) ==
    CASE op = "get_ref" -> 1
      [] op = "parse_ref" -> 2
      [] op = "get_sha" -> 3
      [] op = "mkdtemp" -> 4
      [] op = "checkout_or_init_repo" -> 5
      [] op = "copy_source_to_target" -> 6
      [] op = "push_to_repo" -> 7
      [] op = "cleanup" -> 8

\* C9: the steps of an invocation come in the order validate, resolve ref,
\* resolve SHA, prepare target, publish tree, push; a step runs only after
\* every earlier one succeeded; a local target is never checked out or pushed.
C9_StepOrder ==
    /\ \A i, j \in DOMAIN log : i < j => StepRank(log[i].op) < StepRank(log[j].op)
    /\ \A i \in DOMAIN log : (i < Len(log) /\ log[i + 1].op # "cleanup") => log[i].ok
    /\ log # <<>> => (RepoSet # TargetSet /\ source # NoPath)
    /\ "get_sha" \in Ops(log) => Did("parse_ref")
    /\ "mkdtemp" \in Ops(log) => Did("parse_ref")
    /\ "copy_source_to_target" \in Ops(log) =>
          (Did("parse_ref") /\ (RepoSet => Did("checkout_or_init_repo")))
    /\ "push_to_repo" \in Ops(log) => Did("copy_source_to_target")
    /\ ~RepoSet => Ops(log) \cap {"mkdtemp", "checkout_or_init_repo", "push_to_repo",
                                  "cleanup"} = {}

C9_Witness == pc = "done" /\ RepoSet /\ Did("push_to_repo") /\ "get_ref" \in Ops(log)

\* C10: copy_source_to_target leaves the source tree as it was, whether it
\* succeeds or fails, wherever the destination lies.
C10_SourceUntouched ==
    [][(PostCopy' /\ ~PostCopy) => Subtree(fs', source) = Subtree(fs, source)]_vars

====
